---------------------------- MODULE Spec2Model ----------------------------
(***************************************************************************)
(* Upload / processing / result lifecycle of the two front-ends of         *)
(* pdf-xtractor:                                                           *)
(*   - class BlockCellPDFExtractor        (src/docs/script.js)             *)
(*   - the simple upload script           (src/unnamed/part_000)           *)
(*                                                                         *)
(* One step of the model is one browser task: an event handler or a timer  *)
(* callback together with the promise continuations (microtasks) that run  *)
(* before the browser takes the next task.                                 *)
(*                                                                         *)
(* Strings that the code takes apart or puts together (file names, the     *)
(* generated texts, download names, messages) are sequences of string      *)
(* chunks; '' is the empty sequence.  Values of new Date() and             *)
(* Math.random() are environment inputs: the date is the fixed chunk       *)
(* "<now>", the random statistics only a flag.  What a task hands to the   *)
(* browser (a download, an alert, an uncaught exception) is recorded for   *)
(* the task just run and is gone after the next one.                       *)
(*                                                                         *)
(* All elements the scripts look up exist on their page.  With them        *)
(* present nothing inside the try block of processFile throws, so its      *)
(* catch branch is not taken in Spec.  FailSpec adds the rejection of the  *)
(* awaited simulateProcessing() as an outcome, to reach the catch and      *)
(* finally of processFile; FairSpec and FailSpec let the timers fire.      *)
(*                                                                         *)
(* Left out, as presentation that the lifecycle neither reads nor is asked *)
(* about: CSS animation classes, the toast of showNotification (and        *)
(* copyToClipboard, which only reads extractedText and shows a toast), the *)
(* file name, size and date labels of the preview, fileInput.value, smooth *)
(* scrolling, form validation, hover effects, togglePreview.               *)
(***************************************************************************)
EXTENDS Integers, Sequences, FiniteSets, TLC

\* ------------------------------------------------------------------ bounds

\* how many of the names of NameList the user's files may carry
MaxNames == 3
\* how many nested dragenter events are outstanding at most
MaxDrag == 2
\* how many completion timers of part_000 may be pending at once
MaxTimers == 2

\* ------------------------------------------------------------------ files

\* File names, as sequences of characters: two plain names, then names that
\* hold '.pdf' before the end, twice in a row, or in capitals.
NameList ==
  << <<"a", ".", "p", "d", "f">>,
     <<"b", ".", "p", "d", "f">>,
     <<"a", ".", "p", "d", "f", "s", ".", "p", "d", "f">>,
     <<"a", ".", "p", "d", "f", ".", "p", "d", "f">>,
     <<"A", ".", "P", "D", "F">> >>

Names == { NameList[i] : i \in 1..MaxNames }

PDF == "application/pdf"

Types == { PDF, "image/png" }

\* this.config.maxFileSize
maxFileSize == 10 * 1024 * 1024

\* the limit of handleFileSelect in part_000
simpleMaxFileSize == 50 * 1024 * 1024

\* The sizes tried on each page: the 2 MiB of the spec's scenario, exactly
\* the page's limit, one byte more, and a size far above it.
DocsSizes ==
  { 2 * 1024 * 1024, 10 * 1024 * 1024, 10 * 1024 * 1024 + 1, 50 * 1024 * 1024 }

SimpleSizes ==
  { 2 * 1024 * 1024, 50 * 1024 * 1024, 50 * 1024 * 1024 + 1, 100 * 1024 * 1024 }

\* The File objects the user can choose or drop on each page: a PDF of
\* exactly the limit under every name and, under the first name, every type
\* with every size (the code reads the name of an accepted file only).
DocsFiles ==
  [ name : Names, type : { PDF }, size : { 10 * 1024 * 1024 } ]
    \cup [ name : { NameList[1] }, type : Types, size : DocsSizes ]

SimpleFiles ==
  [ name : Names, type : { PDF }, size : { 50 * 1024 * 1024 } ]
    \cup [ name : { NameList[1] }, type : Types, size : SimpleSizes ]

\* null, where a variable holds a File or null
null == [ name |-> << >>, type |-> "null", size |-> 0 ]

\* ------------------------------------------------------- pure functions

RECURSIVE Pow(_, _)
Pow(b, e) == IF e = 0 THEN 1 ELSE b * Pow(b, e - 1)

\* Math.floor(Math.log(bytes) / Math.log(k)) for bytes >= 1
RECURSIVE FloorLog(_, _)
FloorLog(bytes, k) == IF bytes < k THEN 0 ELSE 1 + FloorLog(bytes \div k, k)

sizes == << "Bytes", "KB", "MB", "GB" >>

\* (x).toFixed(2) of x = bytes / d, in hundredths (round half up); written
\* with quotient and remainder to stay within 32-bit integers for d < 2^30
ToFixed2(bytes, d) ==
  (bytes \div d) * 100 + ((bytes % d) * 200 + d) \div (2 * d)

\* parseFloat("<h/100 with two decimals>") + '' : trailing zeros dropped
NumberChunks(h) ==
  LET ip == h \div 100
      fr == h % 100
  IN  IF fr = 0 THEN << ToString(ip) >>
      ELSE IF fr % 10 = 0 THEN << ToString(ip), ".", ToString(fr \div 10) >>
      ELSE IF fr < 10 THEN << ToString(ip), ".", "0", ToString(fr) >>
      ELSE << ToString(ip), ".", ToString(fr) >>

\* formatFileSize with k = 1000 in place of 1024
formatFileSizeDecimal(bytes) ==
  IF bytes = 0 THEN << "0 Bytes" >>
  ELSE LET k == 1000
           i == FloorLog(bytes, k)
       IN  NumberChunks(ToFixed2(bytes, Pow(k, i)))
             \o << " ", IF i + 1 \in DOMAIN sizes THEN sizes[i + 1] ELSE "undefined" >>

\* formatFileSize(bytes), the same function in both files
formatFileSize(bytes) ==
  IF bytes = 0 THEN << "0 Bytes" >>
  ELSE LET k == 1024
           i == FloorLog(bytes, k)
       IN  NumberChunks(ToFixed2(bytes, Pow(k, i)))
             \o << " ", IF i + 1 \in DOMAIN sizes THEN sizes[i + 1] ELSE "undefined" >>

TypeMessage == << "Please select a PDF file only." >>

SizeMessage == << "File size must be less than " >> \o formatFileSize(maxFileSize) \o << "." >>

\* validateFile without the type check
validateFileNoTypeCheck(file) ==
  IF file.size > maxFileSize
    THEN [ valid |-> FALSE, message |-> SizeMessage ]
    ELSE [ valid |-> TRUE, message |-> << >> ]

\* validateFile refusing a file of exactly maxFileSize
validateFileStrictSize(file) ==
  IF file.type # PDF
    THEN [ valid |-> FALSE, message |-> TypeMessage ]
    ELSE IF file.size >= maxFileSize
      THEN [ valid |-> FALSE, message |-> SizeMessage ]
      ELSE [ valid |-> TRUE, message |-> << >> ]

\* validateFile(file): the type is checked first, then the size
validateFile(file) ==
  IF file.type \notin { PDF }
    THEN [ valid |-> FALSE, message |-> TypeMessage ]
    ELSE IF file.size > maxFileSize
      THEN [ valid |-> FALSE, message |-> SizeMessage ]
      ELSE [ valid |-> TRUE, message |-> << >> ]

\* generateMockExtractedText(fileName)
generateMockExtractedText(fileName) ==
  << "# Extracted Text from " >> \o fileName
    \o << "\n\nThis is a sample of extracted text content ...\n*Extraction completed at ", "<now>", "*" >>

\* the steps of simulateProcessing with the second and third exchanged
stepsExchanged ==
  << [ progress |-> 20, message |-> "Reading PDF file..." ],
     [ progress |-> 60, message |-> "Extracting text content..." ],
     [ progress |-> 40, message |-> "Analyzing document structure..." ],
     [ progress |-> 80, message |-> "Processing formatting..." ],
     [ progress |-> 100, message |-> "Complete!" ] >>

\* The steps of simulateProcessing
steps ==
  << [ progress |-> 20, message |-> "Reading PDF file..." ],
     [ progress |-> 40, message |-> "Analyzing document structure..." ],
     [ progress |-> 60, message |-> "Extracting text content..." ],
     [ progress |-> 80, message |-> "Processing formatting..." ],
     [ progress |-> 100, message |-> "Complete!" ] >>

\* s.indexOf(pat) at or after position i (1-based; 0 when absent)
RECURSIVE IndexFrom(_, _, _)
IndexFrom(s, pat, i) ==
  IF i + Len(pat) - 1 > Len(s) THEN 0
  ELSE IF SubSeq(s, i, i + Len(pat) - 1) = pat THEN i
  ELSE IndexFrom(s, pat, i + 1)

\* s.replace(pat, rep) with a string pattern: the first occurrence only
Replace(s, pat, rep) ==
  LET i == IndexFrom(s, pat, 1)
  IN  IF i = 0 THEN s
      ELSE SubSeq(s, 1, i - 1) \o rep \o SubSeq(s, i + Len(pat), Len(s))

DotPdf == << ".", "p", "d", "f" >>

\* a.download of BlockCellPDFExtractor.downloadText
docsDownloadName(name) == Replace(name, DotPdf, << >>) \o << "_extracted.txt" >>

\* a.download of window.downloadText / window.downloadExcel in part_000
simpleDownloadName(name) == Replace(name, DotPdf, << "_extracted.txt" >>)

\* ------------------------------------------------------------------ state

VARIABLES
  page,               \* which of the two pages the browser has loaded
  \* BlockCellPDFExtractor: this.state
  isProcessing, currentFile, extractedText, dragCounter,
  \* BlockCellPDFExtractor: this.elements
  dragOver,           \* dropZone.classList contains 'drag-over'
  progressDisplay,    \* progressContainer.style.display
  progressWidth,      \* progressBar.style.width, in percent
  progressText,       \* progressText.textContent
  progressTrace,      \* the widths written to progressBar.style.width, in
                      \* order, since the last showProgress()
  resultsDisplay,     \* resultsContainer.style.display
  extractedContent,   \* extractedContent.textContent
  errorDisplay,       \* errorContainer.style.display
  errorMessage,       \* errorMessage.textContent
  filePreviewDisplay, \* filePreview.style.display
  download,           \* the download started by the task just run, if any
  runs,               \* the suspended processFile calls: the file each was
                      \* called with and the delay of simulateProcessing it awaits
  \* part_000: the closure of the DOMContentLoaded listener and its elements
  simpleCurrentFile,  \* let currentFile
  uploadAreaStyled,   \* uploadArea carries the dragover border and background
  simplePreviewDisplay, \* filePreview.style.display
  uploadCardDisplay, optionsCardDisplay, resultsCardDisplay,
  loadingOverlayDisplay,
  extractedTextValue, \* extractedText.value (the textarea)
  statsShown,         \* extractionStats.innerHTML has been written
  pendingTimers,      \* setTimeout callbacks of extractPDF not yet run
  alertMessage,       \* the alert() shown by the task just run, if any
  simpleDownload,     \* the download started by the task just run, if any
  uncaughtError       \* the task just run ended with an uncaught TypeError

docsVars ==
  << isProcessing, currentFile, extractedText, dragCounter, dragOver,
     progressDisplay, progressWidth, progressText, progressTrace,
     resultsDisplay, extractedContent, errorDisplay, errorMessage,
     filePreviewDisplay, download, runs >>

simpleVars ==
  << simpleCurrentFile, uploadAreaStyled, simplePreviewDisplay,
     uploadCardDisplay, optionsCardDisplay, resultsCardDisplay,
     loadingOverlayDisplay, extractedTextValue, statsShown, pendingTimers,
     alertMessage, simpleDownload, uncaughtError >>

vars == << page, docsVars, simpleVars >>

NoDownload == [ filename |-> << >>, content |-> << >> ]

\* constructor(): init(), setupInitialState()
InitDocs ==
  /\ isProcessing = FALSE
  /\ currentFile = null
  /\ extractedText = << >>
  /\ dragCounter = 0
  /\ dragOver = FALSE
  /\ progressDisplay = "none"
  /\ progressWidth = 0
  /\ progressText = ""
  /\ progressTrace = << >>
  /\ resultsDisplay = "none"
  /\ extractedContent = << >>
  /\ errorDisplay = "none"
  /\ errorMessage = << >>
  /\ filePreviewDisplay = "none"
  /\ download = NoDownload
  /\ runs = << >>

\* The DOMContentLoaded listener of part_000: no inline style is set yet.
InitSimple ==
  /\ simpleCurrentFile = null
  /\ uploadAreaStyled = FALSE
  /\ simplePreviewDisplay = ""
  /\ uploadCardDisplay = ""
  /\ optionsCardDisplay = ""
  /\ resultsCardDisplay = ""
  /\ loadingOverlayDisplay = ""
  /\ extractedTextValue = << >>
  /\ statsShown = FALSE
  /\ pendingTimers = 0
  /\ alertMessage = << >>
  /\ simpleDownload = NoDownload
  /\ uncaughtError = FALSE

Init ==
  /\ page \in { "docs", "simple" }
  /\ InitDocs
  /\ InitSimple

\* ------------------------------------------- BlockCellPDFExtractor (docs)

\* showError(message)
showError(message) ==
  /\ errorMessage' = message
  /\ errorDisplay' = "block"

\* hideError()
hideError ==
  /\ errorDisplay' = "none"
  /\ UNCHANGED errorMessage

\* showFilePreview(file)
showFilePreview(file) ==
  filePreviewDisplay' = "block"

\* processFile without the isProcessing guard
processFileNoGuard(file) ==
  /\ isProcessing' = TRUE
  /\ progressDisplay' = "block"
  /\ progressWidth' = steps[1].progress
  /\ progressText' = steps[1].message
  /\ progressTrace' = << 0, steps[1].progress >>
  /\ runs' = Append(runs, [ file |-> file, step |-> 1 ])

\* processFile(file), up to its first suspension: the guard, showProgress()
\* (width 0%), and simulateProcessing() up to the first delay, which has
\* already called updateProgress(20, ...).
processFile(file) ==
  IF isProcessing
    THEN UNCHANGED << isProcessing, progressDisplay, progressWidth, progressText,
                      progressTrace, runs >>
    ELSE /\ isProcessing' = TRUE
         /\ progressDisplay' = "block"
         /\ progressWidth' = steps[1].progress
         /\ progressText' = steps[1].message
         /\ progressTrace' = << 0, steps[1].progress >>
         /\ runs' = Append(runs, [ file |-> file, step |-> 1 ])

\* handleFileSelection without the return after showError: a refused file
\* runs on into the rest of the method
handleFileSelectionNoReturn(file) ==
  LET validation == validateFile(file)
  IN  /\ errorMessage' = IF ~validation.valid THEN validation.message
                                              ELSE errorMessage
      /\ errorDisplay' = "none"
      /\ currentFile' = file
      /\ showFilePreview(file)
      /\ processFile(file)

\* handleFileSelection(file)
handleFileSelection(file) ==
  LET validation == validateFile(file)
  IN  IF ~validation.valid
        THEN /\ showError(validation.message)
             /\ UNCHANGED << currentFile, filePreviewDisplay,
                             isProcessing, progressDisplay, progressWidth,
                             progressText, progressTrace, runs >>
        ELSE /\ hideError
             /\ currentFile' = file
             /\ showFilePreview(file)
             /\ processFile(file)

\* what handleFileSelection never writes
HandleFileSelectionFrame ==
  UNCHANGED << extractedText, resultsDisplay, extractedContent >>

\* dropZone 'dragenter'
DragEnter ==
  /\ page = "docs"
  /\ dragCounter < MaxDrag
  /\ dragCounter' = dragCounter + 1
  /\ dragOver' = TRUE
  /\ download' = NoDownload
  /\ UNCHANGED << page, simpleVars, isProcessing, currentFile, extractedText,
                  progressDisplay, progressWidth, progressText, progressTrace,
                  resultsDisplay, extractedContent, errorDisplay, errorMessage,
                  filePreviewDisplay, runs >>

\* the dragleave listener removing the highlight whatever the counter is
DragLeaveAlwaysClears ==
  /\ page = "docs"
  /\ dragCounter > 0
  /\ dragCounter' = dragCounter - 1
  /\ dragOver' = FALSE
  /\ download' = NoDownload
  /\ UNCHANGED << page, simpleVars, isProcessing, currentFile, extractedText,
                  progressDisplay, progressWidth, progressText, progressTrace,
                  resultsDisplay, extractedContent, errorDisplay, errorMessage,
                  filePreviewDisplay, runs >>

\* dropZone 'dragleave'; the browser sends it for an element the drag entered
DragLeave ==
  /\ page = "docs"
  /\ dragCounter > 0
  /\ dragCounter' = dragCounter - 1
  /\ dragOver' = IF dragCounter - 1 = 0 THEN FALSE ELSE dragOver
  /\ download' = NoDownload
  /\ UNCHANGED << page, simpleVars, isProcessing, currentFile, extractedText,
                  progressDisplay, progressWidth, progressText, progressTrace,
                  resultsDisplay, extractedContent, errorDisplay, errorMessage,
                  filePreviewDisplay, runs >>

\* dropZone 'drop' carrying a file
Drop(file) ==
  /\ page = "docs"
  /\ dragCounter' = 0
  /\ dragOver' = FALSE
  /\ handleFileSelection(file)
  /\ HandleFileSelectionFrame
  /\ download' = NoDownload
  /\ UNCHANGED << page, simpleVars >>

\* dropZone 'drop' carrying no file (files.length = 0)
DropNothing ==
  /\ page = "docs"
  /\ dragCounter' = 0
  /\ dragOver' = FALSE
  /\ download' = NoDownload
  /\ UNCHANGED << page, simpleVars, isProcessing, currentFile, extractedText,
                  progressDisplay, progressWidth, progressText, progressTrace,
                  resultsDisplay, extractedContent, errorDisplay, errorMessage,
                  filePreviewDisplay, runs >>

\* fileInput 'change': the browser has put the chosen file into the input
FileInputChange(file) ==
  /\ page = "docs"
  /\ handleFileSelection(file)
  /\ HandleFileSelectionFrame
  /\ download' = NoDownload
  /\ UNCHANGED << page, simpleVars, dragCounter, dragOver >>

\* clearFile without hideResults() and hideError()
clearFileKeepsPanels ==
  /\ currentFile' = null
  /\ extractedText' = << >>
  /\ filePreviewDisplay' = "none"
  /\ progressDisplay' = "none"
  /\ UNCHANGED << isProcessing, dragCounter, dragOver, progressWidth,
                  progressText, progressTrace, extractedContent, errorMessage,
                  runs, resultsDisplay, errorDisplay >>

\* clearFile()
clearFile ==
  /\ currentFile' = null
  /\ extractedText' = << >>
  /\ filePreviewDisplay' = "none"
  /\ resultsDisplay' = "none"
  /\ progressDisplay' = "none"
  /\ errorDisplay' = "none"
  /\ UNCHANGED << isProcessing, dragCounter, dragOver, progressWidth,
                  progressText, progressTrace, extractedContent, errorMessage,
                  runs >>

\* clearBtn 'click'
ClearClick ==
  /\ page = "docs"
  /\ clearFile
  /\ download' = NoDownload
  /\ UNCHANGED << page, simpleVars >>

\* reset(): clearFile(), then hideError() once more
reset ==
  /\ page = "docs"
  /\ clearFile
  /\ download' = NoDownload
  /\ UNCHANGED << page, simpleVars >>

\* handleEscapeKey(), from document 'keydown' with key Escape
handleEscapeKey ==
  /\ page = "docs"
  /\ IF ~isProcessing /\ currentFile # null
       THEN clearFile
       ELSE /\ hideError
            /\ UNCHANGED << isProcessing, currentFile, extractedText, dragCounter,
                            dragOver, progressDisplay, progressWidth, progressText,
                            progressTrace, resultsDisplay, extractedContent,
                            filePreviewDisplay, runs >>
  /\ download' = NoDownload
  /\ UNCHANGED << page, simpleVars >>

\* A delay of simulateProcessing elapses and the suspended processFile call
\* runs on: the next updateProgress and delay, or, after the last step, the
\* rest of processFile (store and show the text, finally isProcessing = false).
DelayElapsed(i) ==
  /\ page = "docs"
  /\ i \in DOMAIN runs
  /\ LET run == runs[i]
     IN  IF run.step < Len(steps)
           THEN /\ progressWidth' = steps[run.step + 1].progress
                /\ progressText' = steps[run.step + 1].message
                /\ progressTrace' = Append(progressTrace, steps[run.step + 1].progress)
                /\ runs' = [ runs EXCEPT ![i].step = run.step + 1 ]
                /\ UNCHANGED << isProcessing, extractedText, progressDisplay,
                                resultsDisplay, extractedContent >>
           ELSE LET text == generateMockExtractedText(run.file.name)
                IN  /\ extractedText' = text
                    /\ progressDisplay' = "none"
                    /\ extractedContent' = text
                    /\ resultsDisplay' = "block"
                    /\ isProcessing' = FALSE
                    /\ runs' = SubSeq(runs, 1, i - 1) \o SubSeq(runs, i + 1, Len(runs))
                    /\ UNCHANGED << progressWidth, progressText, progressTrace >>
  /\ download' = NoDownload
  /\ UNCHANGED << page, simpleVars, currentFile, dragCounter, dragOver,
                  errorDisplay, errorMessage, filePreviewDisplay >>

\* downloadText(), from downloadBtn 'click'
downloadText ==
  /\ page = "docs"
  /\ IF extractedText = << >> \/ currentFile = null
       THEN download' = NoDownload
       ELSE download' = [ filename |-> docsDownloadName(currentFile.name),
                          content |-> extractedText ]
  /\ UNCHANGED << page, simpleVars, isProcessing, currentFile, extractedText,
                  dragCounter, dragOver, progressDisplay, progressWidth,
                  progressText, progressTrace, resultsDisplay, extractedContent,
                  errorDisplay, errorMessage, filePreviewDisplay, runs >>

NextDocs ==
  \/ DragEnter
  \/ DragLeave
  \/ \E file \in DocsFiles : Drop(file)
  \/ DropNothing
  \/ \E file \in DocsFiles : FileInputChange(file)
  \/ ClearClick
  \/ reset
  \/ handleEscapeKey
  \/ \E i \in DOMAIN runs : DelayElapsed(i)
  \/ downloadText

\* ------------------------------------------------ simple upload (part_000)

SimpleTypeAlert == << "Please select a PDF file" >>

SimpleSizeAlert == << "File size must be less than ", "50", "MB" >>

\* the sample text showResults puts into the textarea
SimpleSampleText(file) ==
  << "Sample extracted text from " >> \o file.name
    \o << ":\n\nThis is a demonstration ...\n\nFile: " >> \o file.name
    \o << "\nSize: " >> \o formatFileSize(file.size)
    \o << "\nProcessed: ", "<now>" >>

\* handleFileSelect(file), with showFilePreview(file) and showOptionsCard()
handleFileSelect(file) ==
  IF file.type # PDF
    THEN /\ alertMessage' = SimpleTypeAlert
         /\ UNCHANGED << simpleCurrentFile, simplePreviewDisplay, optionsCardDisplay >>
    ELSE IF file.size > simpleMaxFileSize
      THEN /\ alertMessage' = SimpleSizeAlert
           /\ UNCHANGED << simpleCurrentFile, simplePreviewDisplay, optionsCardDisplay >>
      ELSE /\ simpleCurrentFile' = file
           /\ simplePreviewDisplay' = "block"
           /\ optionsCardDisplay' = "block"
           /\ alertMessage' = << >>

\* what handleFileSelect never writes
HandleFileSelectFrame ==
  UNCHANGED << uploadCardDisplay, resultsCardDisplay, loadingOverlayDisplay,
               extractedTextValue, statsShown, pendingTimers >>

\* uploadArea 'dragover'
SimpleDragOver ==
  /\ page = "simple"
  /\ uploadAreaStyled' = TRUE
  /\ alertMessage' = << >>
  /\ simpleDownload' = NoDownload
  /\ uncaughtError' = FALSE
  /\ UNCHANGED << page, docsVars, simpleCurrentFile, simplePreviewDisplay,
                  uploadCardDisplay, optionsCardDisplay, resultsCardDisplay,
                  loadingOverlayDisplay, extractedTextValue, statsShown,
                  pendingTimers >>

\* uploadArea 'dragleave'
SimpleDragLeave ==
  /\ page = "simple"
  /\ uploadAreaStyled' = FALSE
  /\ alertMessage' = << >>
  /\ simpleDownload' = NoDownload
  /\ uncaughtError' = FALSE
  /\ UNCHANGED << page, docsVars, simpleCurrentFile, simplePreviewDisplay,
                  uploadCardDisplay, optionsCardDisplay, resultsCardDisplay,
                  loadingOverlayDisplay, extractedTextValue, statsShown,
                  pendingTimers >>

\* uploadArea 'drop' carrying a file: a non-PDF is refused here already
SimpleDrop(file) ==
  /\ page = "simple"
  /\ uploadAreaStyled' = FALSE
  /\ IF file.type = PDF
       THEN handleFileSelect(file)
       ELSE /\ alertMessage' = SimpleTypeAlert
            /\ UNCHANGED << simpleCurrentFile, simplePreviewDisplay, optionsCardDisplay >>
  /\ HandleFileSelectFrame
  /\ simpleDownload' = NoDownload
  /\ uncaughtError' = FALSE
  /\ UNCHANGED << page, docsVars >>

\* uploadArea 'drop' carrying no file
SimpleDropNothing ==
  /\ page = "simple"
  /\ uploadAreaStyled' = FALSE
  /\ alertMessage' = SimpleTypeAlert
  /\ UNCHANGED << simpleCurrentFile, simplePreviewDisplay, optionsCardDisplay >>
  /\ HandleFileSelectFrame
  /\ simpleDownload' = NoDownload
  /\ uncaughtError' = FALSE
  /\ UNCHANGED << page, docsVars >>

\* fileInput 'change'
SimpleFileInputChange(file) ==
  /\ page = "simple"
  /\ handleFileSelect(file)
  /\ HandleFileSelectFrame
  /\ simpleDownload' = NoDownload
  /\ uncaughtError' = FALSE
  /\ UNCHANGED << page, docsVars, uploadAreaStyled >>

\* extractPDF(): show the overlay and set the 3000 ms timer
extractPDF ==
  /\ loadingOverlayDisplay' = "flex"
  /\ pendingTimers' = pendingTimers + 1

\* extractBtn 'click' (window.extractText() clicks the same button)
ExtractClick ==
  /\ page = "simple"
  /\ simpleCurrentFile # null => pendingTimers < MaxTimers
  /\ IF simpleCurrentFile = null
       THEN /\ alertMessage' = << "Please select a PDF file first" >>
            /\ UNCHANGED << loadingOverlayDisplay, pendingTimers >>
       ELSE /\ extractPDF
            /\ alertMessage' = << >>
  /\ simpleDownload' = NoDownload
  /\ uncaughtError' = FALSE
  /\ UNCHANGED << page, docsVars, simpleCurrentFile, uploadAreaStyled,
                  simplePreviewDisplay, uploadCardDisplay, optionsCardDisplay,
                  resultsCardDisplay, extractedTextValue, statsShown >>

\* showResults(): reading currentFile.name of null throws a TypeError after
\* the cards have been switched.
showResults ==
  /\ uploadCardDisplay' = "none"
  /\ optionsCardDisplay' = "none"
  /\ resultsCardDisplay' = "block"
  /\ IF simpleCurrentFile = null
       THEN /\ uncaughtError' = TRUE
            /\ UNCHANGED << extractedTextValue, statsShown >>
       ELSE /\ extractedTextValue' = SimpleSampleText(simpleCurrentFile)
            /\ statsShown' = TRUE
            /\ uncaughtError' = FALSE

\* The timer callback of extractPDF
ExtractTimeout ==
  /\ page = "simple"
  /\ pendingTimers > 0
  /\ pendingTimers' = pendingTimers - 1
  /\ loadingOverlayDisplay' = "none"
  /\ showResults
  /\ alertMessage' = << >>
  /\ simpleDownload' = NoDownload
  /\ UNCHANGED << page, docsVars, simpleCurrentFile, uploadAreaStyled,
                  simplePreviewDisplay >>

\* window.removeFile()
removeFile ==
  /\ page = "simple"
  /\ simpleCurrentFile' = null
  /\ simplePreviewDisplay' = "none"
  /\ optionsCardDisplay' = "none"
  /\ alertMessage' = << >>
  /\ simpleDownload' = NoDownload
  /\ uncaughtError' = FALSE
  /\ UNCHANGED << page, docsVars, uploadAreaStyled, uploadCardDisplay,
                  resultsCardDisplay, loadingOverlayDisplay, extractedTextValue,
                  statsShown, pendingTimers >>

\* window.reset()
simpleReset ==
  /\ page = "simple"
  /\ simpleCurrentFile' = null
  /\ uploadCardDisplay' = "block"
  /\ optionsCardDisplay' = "none"
  /\ resultsCardDisplay' = "none"
  /\ simplePreviewDisplay' = "none"
  /\ alertMessage' = << >>
  /\ simpleDownload' = NoDownload
  /\ uncaughtError' = FALSE
  /\ UNCHANGED << page, docsVars, uploadAreaStyled, loadingOverlayDisplay,
                  extractedTextValue, statsShown, pendingTimers >>

\* window.downloadText() (window.downloadExcel() has the same body)
simpleDownloadText ==
  /\ page = "simple"
  /\ IF simpleCurrentFile = null
       THEN simpleDownload' = NoDownload
       ELSE simpleDownload' =
              [ filename |-> simpleDownloadName(simpleCurrentFile.name),
                content |-> extractedTextValue ]
  /\ alertMessage' = << >>
  /\ uncaughtError' = FALSE
  /\ UNCHANGED << page, docsVars, simpleCurrentFile, uploadAreaStyled,
                  simplePreviewDisplay, uploadCardDisplay, optionsCardDisplay,
                  resultsCardDisplay, loadingOverlayDisplay, extractedTextValue,
                  statsShown, pendingTimers >>

\* window.copyText()
copyText ==
  /\ page = "simple"
  /\ alertMessage' = << "Text copied to clipboard!" >>
  /\ simpleDownload' = NoDownload
  /\ uncaughtError' = FALSE
  /\ UNCHANGED << page, docsVars, simpleCurrentFile, uploadAreaStyled,
                  simplePreviewDisplay, uploadCardDisplay, optionsCardDisplay,
                  resultsCardDisplay, loadingOverlayDisplay, extractedTextValue,
                  statsShown, pendingTimers >>

NextSimple ==
  \/ SimpleDragOver
  \/ SimpleDragLeave
  \/ \E file \in SimpleFiles : SimpleDrop(file)
  \/ SimpleDropNothing
  \/ \E file \in SimpleFiles : SimpleFileInputChange(file)
  \/ ExtractClick
  \/ ExtractTimeout
  \/ removeFile
  \/ simpleReset
  \/ simpleDownloadText
  \/ copyText

Next == NextDocs \/ NextSimple


Spec == Init /\ [][Next]_vars

\* The timers of delay() fire: a run in flight is resumed in the end.
FairSpec == Spec /\ WF_vars(\E i \in DOMAIN runs : DelayElapsed(i))

\* ------------------------------------------------- a failing extraction
\*
\* simulateProcessing() stands where a real extraction would run.  As
\* written it cannot reject, so Spec has no failure.  What processFile does
\* when the awaited call does reject is its catch and finally; FailSpec adds
\* that rejection as an outcome of each wait of a run.

ProcessingErrorMessage ==
  << "An error occurred while processing the PDF. Please try again." >>

\* the catch branch without the finally block
ExtractionFailsNoFinally(i) ==
  /\ page = "docs"
  /\ i \in DOMAIN runs
  /\ progressDisplay' = "none"
  /\ showError(ProcessingErrorMessage)
  /\ runs' = SubSeq(runs, 1, i - 1) \o SubSeq(runs, i + 1, Len(runs))
  /\ download' = NoDownload
  /\ UNCHANGED << page, simpleVars, isProcessing, currentFile, extractedText,
                  dragCounter, dragOver, progressWidth, progressText,
                  progressTrace, resultsDisplay, extractedContent,
                  filePreviewDisplay >>

\* an empty catch branch: the error is swallowed
ExtractionFailsSilently(i) ==
  /\ page = "docs"
  /\ i \in DOMAIN runs
  /\ isProcessing' = FALSE
  /\ runs' = SubSeq(runs, 1, i - 1) \o SubSeq(runs, i + 1, Len(runs))
  /\ download' = NoDownload
  /\ UNCHANGED << page, simpleVars, currentFile, extractedText, dragCounter,
                  dragOver, progressDisplay, progressWidth, progressText,
                  progressTrace, resultsDisplay, extractedContent,
                  errorDisplay, errorMessage, filePreviewDisplay >>

\* The awaited simulateProcessing() of run i rejects: processFile's catch
\* (hideProgress, showError) and finally (isProcessing = false).
ExtractionFails(i) ==
  /\ page = "docs"
  /\ i \in DOMAIN runs
  /\ progressDisplay' = "none"
  /\ showError(ProcessingErrorMessage)
  /\ isProcessing' = FALSE
  /\ runs' = SubSeq(runs, 1, i - 1) \o SubSeq(runs, i + 1, Len(runs))
  /\ download' = NoDownload
  /\ UNCHANGED << page, simpleVars, currentFile, extractedText, dragCounter,
                  dragOver, progressWidth, progressText, progressTrace,
                  resultsDisplay, extractedContent, filePreviewDisplay >>

NextFail ==
  \/ Next
  \/ \E i \in DOMAIN runs : ExtractionFails(i)

\* a wait of a run ends, either way
Settle ==
  \E i \in DOMAIN runs : DelayElapsed(i) \/ ExtractionFails(i)

FailSpec == Init /\ [][NextFail]_vars /\ WF_vars(Settle)

\* ------------------------------------------------------------ properties

\* a file selection event of the docs page carrying `file`
DocsSelect(file) == Drop(file) \/ FileInputChange(file)

\* a file selection event of the simple page carrying `file`
SimpleSelect(file) == SimpleDrop(file) \/ SimpleFileInputChange(file)

\* C1: when clearFile()/reset() ran while a processFile run was in flight (so
\* the run is still suspended and currentFile is null), the settling of that
\* run leaves extractedText empty, currentFile null and the results hidden.
C1_ResetDiscardsLateCompletion ==
  [][ (isProcessing /\ currentFile = null /\ ~isProcessing')
        => /\ extractedText' = << >>
           /\ currentFile' = null
           /\ resultsDisplay' = "none" ]_vars

\* C2: a valid file handed to handleFileSelection while isProcessing is true
\* is rejected: currentFile keeps referring to the file in flight.
C2_SelectionRejectedWhileProcessing ==
  [][ \A file \in DocsFiles :
        (isProcessing /\ validateFile(file).valid /\ DocsSelect(file))
          => currentFile' = currentFile ]_vars

\* C3: at most one processFile run is in flight in every reachable state, and
\* a file selection made while isProcessing is true (whose processFile call
\* hits the guard) starts no run and changes nothing processFile writes.
C3_AtMostOneExtraction ==
  /\ [](Len(runs) <= 1)
  /\ [][ \A file \in DocsFiles :
           (isProcessing /\ DocsSelect(file))
             => UNCHANGED << runs, isProcessing, progressDisplay, progressWidth,
                             progressText, progressTrace, extractedText,
                             extractedContent, resultsDisplay >> ]_vars

\* C3 witness: a second valid file was selected while the first run is still
\* the only one in flight.
C3_Witness ==
  /\ isProcessing
  /\ Len(runs) = 1
  /\ currentFile # null
  /\ currentFile # runs[1].file

\* C4: in part_000 at most one completion timer is ever pending, however
\* often the extract button is clicked.
C4_OnePendingTimer == pendingTimers <= 1

\* C5: selecting a file whose type is not application/pdf reports an error
\* and leaves the current file, the extracted text and the processing state
\* as they were, starting no extraction (both implementations).
C5_NonPdfRejected ==
  [][ /\ page = "docs" => \A file \in DocsFiles :
           (file.type # "application/pdf" /\ DocsSelect(file))
             => /\ errorDisplay' = "block"
                /\ errorMessage' # << >>
                /\ UNCHANGED << currentFile, extractedText, isProcessing, runs >>
      /\ page = "simple" => \A file \in SimpleFiles :
           (file.type # "application/pdf" /\ SimpleSelect(file))
             => /\ alertMessage' # << >>
                /\ UNCHANGED << simpleCurrentFile, extractedTextValue,
                                pendingTimers, loadingOverlayDisplay >> ]_vars

\* C5 witness: the type error is on display while an earlier file is still
\* current and still being processed.
C5_Witness ==
  /\ errorDisplay = "block"
  /\ errorMessage = << "Please select a PDF file only." >>
  /\ currentFile # null
  /\ isProcessing

\* C6: a selected file becomes the current file exactly when its type is
\* application/pdf and its size is at most the limit (10 MiB in script.js,
\* 50 MiB in part_000); a non-PDF gets the type error whatever its size.
C6_AcceptedIffPdfWithinLimit ==
  [][ /\ page = "docs" => \A file \in DocsFiles :
           DocsSelect(file)
             => /\ (currentFile' = file /\ errorDisplay' = "none")
                     <=> (file.type = "application/pdf"
                            /\ file.size <= 10 * 1024 * 1024)
                /\ file.type # "application/pdf"
                     => (errorDisplay' = "block"
                           /\ errorMessage' = << "Please select a PDF file only." >>)
      /\ page = "simple" => \A file \in SimpleFiles :
           SimpleSelect(file)
             => /\ (simpleCurrentFile' = file /\ optionsCardDisplay' = "block"
                      /\ alertMessage' = << >>)
                     <=> (file.type = "application/pdf"
                            /\ file.size <= 50 * 1024 * 1024)
                /\ file.type # "application/pdf"
                     => alertMessage' = << "Please select a PDF file" >> ]_vars

\* C6 witness: a PDF of exactly 10 MiB is the current file of the docs page.
C6_Witness ==
  /\ page = "docs"
  /\ currentFile.type = "application/pdf"
  /\ currentFile.size = 10 * 1024 * 1024

\* C7: a PDF larger than the limit gets the file-too-large error, the limit
\* the message names is exactly the limit that was compared (n MB with
\* n * 1024 * 1024 = the maximum), and the current file, the extracted text
\* and the processing state are unchanged.
C7_TooLargeNamesTheLimit ==
  [][ /\ page = "docs" => \A file \in DocsFiles :
           (file.type = "application/pdf" /\ file.size > maxFileSize
              /\ DocsSelect(file))
             => /\ errorDisplay' = "block"
                /\ \E n \in 1..1023 :
                     /\ errorMessage' =
                          << "File size must be less than ", ToString(n), " ", "MB", "." >>
                     /\ n * 1024 * 1024 = maxFileSize
                /\ UNCHANGED << currentFile, extractedText, isProcessing, runs >>
      /\ page = "simple" => \A file \in SimpleFiles :
           (file.type = "application/pdf" /\ file.size > simpleMaxFileSize
              /\ SimpleSelect(file))
             => /\ \E n \in 1..1023 :
                     /\ alertMessage' =
                          << "File size must be less than ", ToString(n), "MB" >>
                     /\ n * 1024 * 1024 = simpleMaxFileSize
                /\ UNCHANGED << simpleCurrentFile, extractedTextValue,
                                pendingTimers, loadingOverlayDisplay >> ]_vars

\* C7 witness: the too-large error of the docs page is on display, naming
\* 10 MB, beside the result of an earlier file.
C7_Witness ==
  /\ errorDisplay = "block"
  /\ errorMessage = << "File size must be less than ", "10", " ", "MB", "." >>
  /\ currentFile # null
  /\ extractedText # << >>

\* C8: extractedText is non-empty exactly in state Result: no run in flight
\* and the results panel shown for the current file.
C8_TextIffResult ==
  page = "docs" =>
    ( extractedText # << >>
        <=> (~isProcessing /\ resultsDisplay = "block" /\ currentFile # null) )

\* C9: no callback of part_000 ends with an uncaught exception.
C9_NoUncaughtException == ~uncaughtError

\* C10: Escape with no run in flight brings the session to Idle (no file, no
\* text, results, progress and error panels hidden); Escape during a run
\* leaves currentFile, extractedText and isProcessing unchanged.
C10_EscapeResetsUnlessProcessing ==
  [][ handleEscapeKey
        => /\ ~isProcessing
                => /\ currentFile' = null
                   /\ extractedText' = << >>
                   /\ resultsDisplay' = "none"
                   /\ progressDisplay' = "none"
                   /\ errorDisplay' = "none"
           /\ isProcessing
                => UNCHANGED << currentFile, extractedText, isProcessing >> ]_vars

\* C11: a download is produced only in state Result.  On the docs page that
\* is: no run in flight, the results shown, and extractedText the text
\* generated for the current file; on the simple page: the results card shown
\* with the sample text written for the current file.
C11_ExportOnlyInResult ==
  /\ (page = "docs" /\ download # NoDownload)
       => /\ ~isProcessing
          /\ resultsDisplay = "block"
          /\ currentFile # null
          /\ extractedText = generateMockExtractedText(currentFile.name)
  /\ (page = "simple" /\ simpleDownload # NoDownload)
       => /\ simpleCurrentFile # null
          /\ resultsCardDisplay = "block"
          /\ statsShown
          /\ extractedTextValue = SimpleSampleText(simpleCurrentFile)

\* name ends in '.pdf'
EndsInDotPdf(name) ==
  /\ Len(name) >= 4
  /\ SubSeq(name, Len(name) - 3, Len(name)) = << ".", "p", "d", "f" >>

\* name with its last four characters replaced by '_extracted.txt'
TrailingExtensionReplaced(name) ==
  SubSeq(name, 1, Len(name) - 4) \o << "_extracted.txt" >>

\* C12: every download of a file whose name ends in '.pdf' is named by that
\* name with the trailing '.pdf' replaced by '_extracted.txt', wherever else
\* the name holds '.pdf', and its content is exactly the extracted text (the
\* textarea's value on the simple page).
C12_DownloadNameReplacesExtension ==
  /\ (page = "docs" /\ download # NoDownload /\ EndsInDotPdf(currentFile.name))
       => /\ download.filename = TrailingExtensionReplaced(currentFile.name)
          /\ download.content = extractedText
  /\ (page = "simple" /\ simpleDownload # NoDownload
        /\ EndsInDotPdf(simpleCurrentFile.name))
       => /\ simpleDownload.filename = TrailingExtensionReplaced(simpleCurrentFile.name)
          /\ simpleDownload.content = extractedTextValue

\* C13: the widths written to the progress bar in one Processing period are
\* 0, 20, 40, 60, 80, 100 in that order (so they start at 0 and never
\* decrease), the bar shows the last of them while the run is in flight,
\* whatever select, clear and escape events come between the ticks, and the
\* results are shown (and the period ends) only after 100 has been written.
C13_ProgressInOrder ==
  /\ [](\E n \in 0..6 : progressTrace = SubSeq(<< 0, 20, 40, 60, 80, 100 >>, 1, n))
  /\ [](isProcessing => /\ Len(progressTrace) >= 2
                        /\ progressWidth = progressTrace[Len(progressTrace)])
  /\ [][ (isProcessing /\ isProcessing') => progressWidth' >= progressWidth ]_vars
  /\ [][ ( \/ (resultsDisplay # "block" /\ resultsDisplay' = "block")
           \/ extractedContent' # extractedContent
           \/ (isProcessing /\ ~isProcessing') )
           => (progressWidth = 100 /\ Len(progressTrace) = 6) ]_vars

\* C13 witness: a run has reached 60 although the file was cleared and
\* another one selected meanwhile.
C13_Witness ==
  /\ isProcessing
  /\ progressTrace = << 0, 20, 40, 60 >>
  /\ progressDisplay = "none"
  /\ currentFile # null
  /\ currentFile # runs[1].file

\* C14: an extraction starts only for a file that passed validation.  On the
\* docs page every run in flight is for a PDF of at most 10 MiB, and
\* isProcessing turns true only in a selection of such a file, which becomes
\* the current file and the file of the one run.  On the simple page the
\* current file is always null or a PDF of at most 50 MiB, and a completion
\* timer is set only by the extract button with a current file present.
C14_ExtractionOnlyForValidatedFile ==
  /\ [](\A i \in DOMAIN runs :
          /\ runs[i].file.type = "application/pdf"
          /\ runs[i].file.size <= 10 * 1024 * 1024)
  /\ [][ (~isProcessing /\ isProcessing')
           => \E file \in DocsFiles :
                /\ DocsSelect(file)
                /\ file.type = "application/pdf"
                /\ file.size <= 10 * 1024 * 1024
                /\ currentFile' = file
                /\ runs' = << [ file |-> file, step |-> 1 ] >> ]_vars
  /\ [](simpleCurrentFile # null
          => /\ simpleCurrentFile.type = "application/pdf"
             /\ simpleCurrentFile.size <= 50 * 1024 * 1024)
  /\ [][ pendingTimers' > pendingTimers
           => (ExtractClick /\ simpleCurrentFile # null
                 /\ simpleCurrentFile' = simpleCurrentFile) ]_vars

\* C14 witness: the run just started is the run of the accepted current file.
C14_Witness ==
  /\ page = "docs"
  /\ isProcessing
  /\ runs = << [ file |-> currentFile, step |-> 1 ] >>
  /\ errorDisplay = "none"
  /\ extractedText # << >>

\* C15: the clear button or reset(), with no run in flight, leaves the docs
\* page Idle whatever was shown before (a result, an error, or both):
\* currentFile null, extractedText empty, and the file preview, results,
\* progress and error panels hidden.
C15_ResetYieldsIdle ==
  [][ ((ClearClick \/ reset) /\ ~isProcessing)
        => /\ currentFile' = null
           /\ extractedText' = << >>
           /\ ~isProcessing'
           /\ filePreviewDisplay' = "none"
           /\ resultsDisplay' = "none"
           /\ progressDisplay' = "none"
           /\ errorDisplay' = "none" ]_vars

\* C15 witness: Idle after a result had been shown and an error reported.
C15_Witness ==
  /\ page = "docs"
  /\ ~isProcessing
  /\ currentFile = null
  /\ extractedText = << >>
  /\ extractedContent # << >>
  /\ errorMessage # << >>
  /\ filePreviewDisplay = "none"
  /\ resultsDisplay = "none"
  /\ progressDisplay = "none"
  /\ errorDisplay = "none"

\* C16: every processFile run that starts settles, exactly once: while a run
\* is in flight isProcessing is true and the run is the only one, and under
\* fair timers isProcessing returns to false, by success or by failure,
\* whatever select, clear and escape events come meanwhile; the step that
\* turns isProcessing false ends that one run.
C16_EveryExtractionSettles ==
  /\ [](isProcessing <=> Len(runs) = 1)
  /\ [](~isProcessing <=> runs = << >>)
  /\ [][ (isProcessing /\ ~isProcessing') => runs' = << >> ]_vars
  /\ (isProcessing ~> ~isProcessing)

\* C16 witness: a run has settled by success although its file was cleared
\* while it was in flight.
C16_Witness ==
  /\ page = "docs"
  /\ ~isProcessing
  /\ runs = << >>
  /\ Len(progressTrace) = 6
  /\ resultsDisplay = "block"
  /\ currentFile = null

\* C17: when the extraction of a run fails, the error banner is shown with a
\* message, the progress panel is hidden, isProcessing is false, extractedText
\* is what it was, and no run is left or started (no retry); a valid file
\* selected with no run in flight, after a failure as ever, becomes the
\* current file and starts the one new run; runs start in selections only.
C17_FailureEndsInError ==
  /\ [][ (\E i \in DOMAIN runs : ExtractionFails(i))
           => /\ errorDisplay' = "block"
              /\ errorMessage' # << >>
              /\ progressDisplay' = "none"
              /\ ~isProcessing'
              /\ extractedText' = extractedText
              /\ runs' = << >> ]_vars
  /\ [][ \A file \in DocsFiles :
           ( /\ ~isProcessing
             /\ file.type = "application/pdf"
             /\ file.size <= 10 * 1024 * 1024
             /\ DocsSelect(file) )
             => /\ currentFile' = file
                /\ isProcessing'
                /\ runs' = << [ file |-> file, step |-> 1 ] >>
                /\ errorDisplay' = "none" ]_vars
  /\ [][ (Len(runs') > Len(runs)) => \E file \in DocsFiles : DocsSelect(file) ]_vars

\* C17 witness: a failed run has left the error banner with the processing
\* message, no run in flight and the current file still in place.
C17_Witness ==
  /\ page = "docs"
  /\ ~isProcessing
  /\ runs = << >>
  /\ errorDisplay = "block"
  /\ errorMessage = << "An error occurred while processing the PDF. Please try again." >>
  /\ progressDisplay = "none"
  /\ currentFile # null
  /\ extractedText = << >>

\* C18: on the docs page, whenever extractedText is non-empty and a file is
\* current, extractedText is the text generated by the run of that file, so
\* that a download carries the text of the file that names it.
C18_TextBelongsToCurrentFile ==
  page = "docs" =>
    /\ (extractedText # << >> /\ currentFile # null)
         => extractedText = generateMockExtractedText(currentFile.name)
    /\ download # NoDownload
         => download.content = generateMockExtractedText(currentFile.name)

\* the files validateFile accepts
AcceptedDocsFiles ==
  { file \in DocsFiles :
      file.type = "application/pdf" /\ file.size <= 10 * 1024 * 1024 }

\* C19: under fair timers every file that has become the current file is
\* followed by its result (no run in flight, its text stored and shown),
\* unless it stops being the current file first.
C19_AcceptedFileIsExtracted ==
  \A file \in AcceptedDocsFiles :
    (currentFile = file)
      ~> ( \/ currentFile # file
           \/ /\ ~isProcessing
              /\ extractedText = generateMockExtractedText(file.name)
              /\ resultsDisplay = "block" )

\* C20: on the docs page at most one of the progress panel, the results
\* panel and the error banner is visible.
C20_OnePanelVisible ==
  page = "docs" =>
    Cardinality({ panel \in { << "progress", progressDisplay >>,
                              << "results", resultsDisplay >>,
                              << "error", errorDisplay >> } :
                    panel[2] = "block" }) <= 1

\* C21: with every dragleave matched by a dragenter still outstanding since
\* the last drop, dragCounter is never negative and the drop zone carries
\* 'drag-over' exactly when dragCounter is greater than 0; a drop, with or
\* without a file, leaves dragCounter 0 and the highlight removed.
C21_DragCounterMatchesHighlight ==
  /\ [](dragCounter >= 0 /\ (dragOver <=> dragCounter > 0))
  /\ [][ (DropNothing \/ \E file \in DocsFiles : Drop(file))
           => (dragCounter' = 0 /\ ~dragOver') ]_vars

\* C21 witness: a drag is over the zone, two levels deep, after an earlier
\* drop has made a file current.
C21_Witness ==
  /\ page = "docs"
  /\ dragCounter = 2
  /\ dragOver
  /\ currentFile # null
  /\ ~isProcessing

\* C22: the two pages name the download of one file alike: what a page
\* hands to the browser as the filename is what the other page's
\* downloadText gives for the same file name.
C22_PagesAgreeOnDownloadName ==
  /\ (page = "docs" /\ download # NoDownload)
       => download.filename = simpleDownloadName(currentFile.name)
  /\ (page = "simple" /\ simpleDownload # NoDownload)
       => simpleDownload.filename = docsDownloadName(simpleCurrentFile.name)

=============================================================================
